---- MODULE Spec2Model ----
(***************************************************************************)
(* The report layout engine of full_table_generator.py                     *)
(* (CompleteTableGenerator): records are aggregated into per-type and      *)
(* per-pattern tables, the tables are laid out as blocks on worksheets,    *)
(* and every block is rendered cell by cell.                               *)
(*                                                                         *)
(* Python strings are sequences of code points (so that sorted() is the    *)
(* lexicographic order Python uses); a cell value is a pair                *)
(*   <<"s", str>>            a text,                                       *)
(*   <<"n", <<v>>>>          an integer,                                   *)
(*   <<"f", <<col, r1, r2>>>> the formula =SUM(<col>r1:<col>r2).           *)
(* A worksheet records the value, border and merged ranges of the cells    *)
(* the code has touched; a cell never touched has no value and no border.  *)
(***************************************************************************)
EXTENDS Integers, Sequences, FiniteSets, TLC

\* ------------------------------------------------------------------------
\* Program constants (CompleteTableGenerator.__init__)
\* ------------------------------------------------------------------------
min_columns == 6

max_columns == 10

left_start_col == 1

right_start_col == 12

space_col_width == 1

block_spacing == 2

\* ------------------------------------------------------------------------
\* Bounds of the model
\* ------------------------------------------------------------------------
\* the largest number of (type, pattern) groups in an input table
MaxGroups == 3

\* the largest number of distinct colors offered to one group
MaxColors == 2

\* the largest number of distinct sizes offered to one group
MaxSpecs == 10

\* the largest quantity written in an input row
MaxQty == 2

\* ------------------------------------------------------------------------
\* Strings and cell values
\* ------------------------------------------------------------------------
Txt(s) == <<"s", s>>

Num(n) == <<"n", <<n>>>>

SumFormula(col, r1, r2) == <<"f", <<col, r1, r2>>>>

EmptyStr == <<>>

\* "颜色", "行合计", "合计" as code points
LabelColor == <<39068, 33394>>

LabelRowTotal == <<34892, 21512, 35745>>

LabelTotal == <<21512, 35745>>

\* s < t in Python's string order
RECURSIVE StrLess(_, _)
StrLess(s, t) ==
    IF t = <<>> THEN FALSE
    ELSE IF s = <<>> THEN TRUE
    ELSE IF Head(s) # Head(t) THEN Head(s) < Head(t)
    ELSE StrLess(Tail(s), Tail(t))

\* sorted(S) for a set S of strings
\* Sorted with the greatest string first
RECURSIVE Sorted_Descending(_)
Sorted_Descending(S) ==
    IF S = {} THEN <<>>
    ELSE LET m == CHOOSE x \in S : \A y \in S \ {x} : StrLess(y, x)
         IN  <<m>> \o Sorted_Descending(S \ {m})

RECURSIVE Sorted(_)
Sorted(S) ==
    IF S = {} THEN <<>>
    ELSE LET m == CHOOSE x \in S : \A y \in S \ {x} : StrLess(x, y)
         IN  <<m>> \o Sorted(S \ {m})

\* float(x) succeeds: the strings of the model are digits or letters
IsNumeric(s) == s # <<>> /\ \A i \in DOMAIN s : s[i] \in 48..57

RECURSIVE NumVal(_)
NumVal(s) ==
    IF s = <<>> THEN 0 ELSE 10 * NumVal(SubSeq(s, 1, Len(s) - 1)) + (s[Len(s)] - 48)

\* sorted(specs, key=float) on the sorted list raw: stable, so equal keys
\* keep their order in raw
RECURSIVE SortedByFloat(_)
SortedByFloat(raw) ==
    IF raw = <<>> THEN <<>>
    ELSE LET i == CHOOSE k \in DOMAIN raw :
                    \A j \in DOMAIN raw :
                        \/ NumVal(raw[k]) < NumVal(raw[j])
                        \/ NumVal(raw[k]) = NumVal(raw[j]) /\ k <= j
         IN  <<raw[i]>> \o SortedByFloat(SubSeq(raw, 1, i - 1) \o SubSeq(raw, i + 1, Len(raw)))

_sort_specs(specs) ==
    IF \A i \in DOMAIN specs : IsNumeric(specs[i])
    THEN SortedByFloat(specs)
    ELSE specs

RECURSIVE SumSeq(_)
SumSeq(s) == IF s = <<>> THEN 0 ELSE Head(s) + SumSeq(Tail(s))

Max(a, b) == IF a >= b THEN a ELSE b

\* the Python slice seq[:n]
Take(seq, n) == SubSeq(seq, 1, IF n < Len(seq) THEN n ELSE Len(seq))

\* n copies of v
Repeat(v, n) == [i \in 1..n |-> v]

\* ------------------------------------------------------------------------
\* Input tables
\* ------------------------------------------------------------------------
\* decimal digits of n
RECURSIVE Decimal(_)
Decimal(n) == IF n < 10 THEN <<48 + n>> ELSE Decimal(n \div 10) \o <<48 + (n % 10)>>

\* names are chosen so that the order of the names is not the order of the
\* indices: "B", "A", "C", ...
TypeName(i) == IF i = 1 THEN <<66>> ELSE IF i = 2 THEN <<65>> ELSE <<64 + i>>

\* "P2", "P1", "P3", ...
PatternName(j) == <<80>> \o Decimal(IF j = 1 THEN 2 ELSE IF j = 2 THEN 1 ELSE j)

\* "Red", "Blue", "C3", ...
ColorName(c) ==
    IF c = 1 THEN <<82, 101, 100>>
    ELSE IF c = 2 THEN <<66, 108, 117, 101>>
    ELSE <<67>> \o Decimal(c)

\* "1", "2", ..., "10", ...
SizeName(s) == Decimal(s)

\* the shapes offered to group g, <<number of sizes, number of colors>>:
\* few sizes (the table is padded to 6 columns), some (7 to 10 columns) or
\* more than fit (over 10 columns), in one color or in several; the first two
\* groups draw from four shapes each, the later ones from two
Shapes(g) ==
    IF g = 1
    THEN {<<1, MaxColors>>, <<5, 1>>, <<8, 1>>, <<MaxSpecs - 1, MaxColors>>}
    ELSE IF g = 2
    THEN {<<4, 1>>, <<6, MaxColors>>, <<7, MaxColors>>, <<MaxSpecs, 1>>}
    ELSE IF g % 2 = 1
    THEN {<<5, 1>>, <<MaxSpecs - 1, MaxColors>>}
    ELSE {<<4, 1>>, <<7, MaxColors>>}

\* a cell nothing was written in (pandas reads it as NaN)
MissingCell == <<"e", <<>>>>

\* the written quantity of a row: a number, a text that is no number ("x"),
\* or nothing
RawQty(g, c, s) ==
    LET v == (g + 2 * c + s) % (MaxQty + 2)
    IN  IF v = MaxQty + 1
        THEN (IF s % 2 = 0 THEN MissingCell ELSE Txt(<<120>>))
        ELSE Num(v)

\* the rows of group g (type t, pattern p) of the given shape: every
\* (color, size) pair but a few, and a second row for some pairs
GroupRows(g, t, p, shape) ==
    LET pairs  == {<<c, s>> \in (1..shape[2]) \X (1..shape[1]) :
                        c = 1 \/ (s + g) % 3 # 0}
        row(c, s, q) == [type |-> TypeName(t), pattern |-> PatternName(p),
                         color |-> ColorName(c), spec |-> SizeName(s), qty |-> q]
        RECURSIVE rows(_)
        rows(P) ==
            IF P = {} THEN <<>>
            ELSE LET x == CHOOSE y \in P : TRUE
                 IN  <<row(x[1], x[2], RawQty(g, x[1], x[2]))>>
                     \o (IF (x[1] + x[2]) % 4 = 0 THEN <<row(x[1], x[2], Num(1))>> ELSE <<>>)
                     \o rows(P \ {x})
    IN  rows(pairs)

\* the type index of each group: group 1 is of type 1, the next group is of
\* the same type or of the next one
TypeAssignments(n) ==
    {ta \in [1..n -> 1..n] :
        /\ ta[1] = 1
        /\ \A g \in 2..n : ta[g] \in {ta[g - 1], ta[g - 1] + 1}}

\* the pattern index of group g within its type
PatternIndex(ta, g) == Cardinality({h \in 1..g : ta[h] = ta[g]})

RECURSIVE TableRows(_, _, _)
TableRows(ta, shapes, g) ==
    IF g = 0 THEN <<>>
    ELSE TableRows(ta, shapes, g - 1)
         \o GroupRows(g, ta[g], PatternIndex(ta, g), shapes[g])

InputTables ==
    UNION {{TableRows(ta, shapes, n) :
                ta \in TypeAssignments(n),
                shapes \in {f \in [1..n -> Shapes(1) \cup Shapes(2)] :
                              \A g \in 1..n : f[g] \in Shapes(g)}} :
           n \in 1..MaxGroups}

\* the three records (A, Red, S, 3), (A, Red, M, 5), (A, Blue, S, 2), each with
\* one of two pattern names
ScenarioRows ==
    {<<[type |-> <<65>>, pattern |-> PatternName(pats[1]), color |-> ColorName(1),
        spec |-> <<83>>, qty |-> Num(3)],
       [type |-> <<65>>, pattern |-> PatternName(pats[2]), color |-> ColorName(1),
        spec |-> <<77>>, qty |-> Num(5)],
       [type |-> <<65>>, pattern |-> PatternName(pats[3]), color |-> ColorName(2),
        spec |-> <<83>>, qty |-> Num(2)]>> : pats \in [1..3 -> 1..2]}

\* the column names a table may have: for each field the name of its column
\* (<<>> when the table has no such column); "备注" is a column of no field
StandardHeader ==
    [type |-> <<31867, 22411>>, pattern |-> <<22270, 26696>>,
     color |-> <<39068, 33394>>, spec |-> <<35268, 26684>>,
     qty |-> <<25968, 37327>>, extra |-> <<>>]

\* "宝贝类型", "花纹", "色系", "尺码", "库存", "备注"
AliasHeader ==
    [type |-> <<23453, 36125, 31867, 22411>>, pattern |-> <<33457, 32441>>,
     color |-> <<33394, 31995>>, spec |-> <<23610, 30721>>,
     qty |-> <<24211, 23384>>, extra |-> <<22791, 27880>>]

Fields == <<"type", "pattern", "color", "spec", "qty">>

\* the standard header without the column of one field, and with "备注"
HeadersMissingOne ==
    {[[StandardHeader EXCEPT ![Fields[f]] = <<>>] EXCEPT !.extra = <<22791, 27880>>] :
        f \in DOMAIN Fields}

\* the table pd.read_excel returns: its column names in order, and its rows,
\* each a function from the column names to the cells
RawTable(header, recs) ==
    LET names   == <<header.type, header.pattern, header.color, header.spec,
                     header.qty, header.extra>>
        present == SelectSeq(names, LAMBDA n : n # <<>>)
        cell(rec, n) == IF n = header.type THEN rec.type
                        ELSE IF n = header.pattern THEN rec.pattern
                        ELSE IF n = header.color THEN rec.color
                        ELSE IF n = header.spec THEN rec.spec
                        ELSE IF n = header.qty THEN rec.qty
                        ELSE MissingCell
    IN  [columns |-> present,
         rows    |-> [r \in DOMAIN recs |->
                        [n \in {present[c] : c \in DOMAIN present} |-> cell(recs[r], n)]]]

\* the inputs: every table of InputTables and of ScenarioRows under the
\* standard column names; the tables of ScenarioRows under alias names and
\* with one column missing
Inputs ==
    {RawTable(StandardHeader, recs) : recs \in InputTables \cup ScenarioRows}
    \cup {RawTable(header, recs) :
            header \in {AliasHeader} \cup HeadersMissingOne, recs \in ScenarioRows}

\* ------------------------------------------------------------------------
\* DataStandardizer.standardize: the columns are matched to the five fields
\* and renamed, the quantity column is coerced to integers
\* ------------------------------------------------------------------------
\* self.field_mapping: the aliases of each field, in the order of Fields
field_mapping ==
    <<  <<<<31867, 22411>>, <<23453, 36125, 31867, 22411>>,
          <<21830, 21697, 20449, 24687>>, <<20135, 21697, 31867, 22411>>>>,
        <<<<22270, 26696>>, <<22270, 26696, 21517, 31216>>, <<33457, 32441>>,
          <<21360, 33457>>>>,
        <<<<39068, 33394>>, <<33394, 24425>>, <<33394, 31995>>>>,
        <<<<35268, 26684>>, <<23610, 23544>>, <<23610, 30721>>>>,
        <<<<25968, 37327>>, <<20214, 25968>>, <<24635, 25968>>, <<24211, 23384>>>>  >>

\* str.lower(): the Latin capitals are lowered, the other code points kept
Lower(s) == [n \in DOMAIN s |-> IF s[n] \in 65..90 THEN s[n] + 32 ELSE s[n]]

\* no column: matched_alias stays None
NoColumn == <<>>

\* MatchedColumn that falls back on the last column when no alias matches
MatchedColumn_LastColumnFallback(columns, aliases) ==
    LET Hit(a) == {c \in DOMAIN columns : Lower(columns[c]) = Lower(aliases[a])}
        found  == {a \in DOMAIN aliases : Hit(a) # {}}
    IN  IF found = {} THEN columns[Len(columns)]
        ELSE LET a == CHOOSE x \in found : \A y \in found : x <= y
                 c == CHOOSE x \in Hit(a) : \A y \in Hit(a) : x <= y
             IN  columns[c]

\* the column matched to a field: the first column equal, case ignored, to
\* the first alias that equals some column
MatchedColumn(columns, aliases) ==
    LET Hit(a) == {c \in DOMAIN columns : Lower(columns[c]) = Lower(aliases[a])}
        found  == {a \in DOMAIN aliases : Hit(a) # {}}
    IN  IF found = {} THEN NoColumn
        ELSE LET a == CHOOSE x \in found : \A y \in found : x <= y
                 c == CHOOSE x \in Hit(a) : \A y \in Hit(a) : x <= y
             IN  columns[c]

\* the fields for which standardize raises ValueError
MissingFields(table) ==
    {f \in DOMAIN Fields : MatchedColumn(table.columns, field_mapping[f]) = NoColumn}

\* pd.to_numeric(errors="coerce").fillna(0).astype(int) on one written value
CoerceQty(cell) ==
    IF cell[1] = "n" THEN cell[2][1]
    ELSE IF IsNumeric(cell[2]) THEN NumVal(cell[2])
    ELSE 0

\* standardize that drops the rows whose quantity is no number
standardize_DropUnparseable(table) ==
    LET col(f) == MatchedColumn(table.columns, field_mapping[f])
        kept   == SelectSeq(table.rows, LAMBDA row : row[col(5)][1] = "n")
    IN  [r \in DOMAIN kept |->
            [type    |-> kept[r][col(1)],
             pattern |-> kept[r][col(2)],
             color   |-> kept[r][col(3)],
             spec    |-> kept[r][col(4)],
             qty     |-> CoerceQty(kept[r][col(5)])]]

\* the table standardize returns when it does not raise: the matched columns
\* under their standard names, the quantities coerced
standardize(table) ==
    LET col(f) == MatchedColumn(table.columns, field_mapping[f])
    IN  [r \in DOMAIN table.rows |->
            [type    |-> table.rows[r][col(1)],
             pattern |-> table.rows[r][col(2)],
             color   |-> table.rows[r][col(3)],
             spec    |-> table.rows[r][col(4)],
             qty     |-> CoerceQty(table.rows[r][col(5)])]]

\* ------------------------------------------------------------------------
\* Aggregation
\* ------------------------------------------------------------------------
\* group["颜色"].unique(), group["规格"].unique(), as sets
UniqueColors(group) == {group[i].color : i \in DOMAIN group}

UniqueSpecs(group) == {group[i].spec : i \in DOMAIN group}

UniqueTypes(df) == {df[i].type : i \in DOMAIN df}

UniquePatterns(group) == {group[i].pattern : i \in DOMAIN group}

\* QtySum with only the first matching row counted
QtySum_FirstRowOnly(group, color, spec) ==
    LET Match(r) == r.color = color /\ r.spec = spec
        sel      == SelectSeq(group, Match)
    IN  IF sel = <<>> THEN 0 ELSE sel[1].qty

\* QtySum over the rows of the size, whatever their color
QtySum_AnyColor(group, color, spec) ==
    LET Match(r) == r.spec = spec
        sel      == SelectSeq(group, Match)
    IN  SumSeq([i \in DOMAIN sel |-> sel[i].qty])

\* color_data[color_data["规格"] == spec]["数量"].sum()
QtySum(group, color, spec) ==
    LET Match(r) == r.color = color /\ r.spec = spec
        sel      == SelectSeq(group, Match)
    IN  SumSeq([i \in DOMAIN sel |-> sel[i].qty])

\* datetime.now() formatted: one fixed day, "1102"
_get_formatted_date == <<49, 49, 48, 50>>

\* " - "
Dash == <<32, 45, 32>>

\* the table of one type group (one iteration of the loop of
\* _calculate_type_aggregation)
TypeTable(group) ==
    LET type_name    == group[1].type
        colors       == Sorted(UniqueColors(group))
        raw_specs    == Sorted(UniqueSpecs(group))
        sorted_specs == _sort_specs(raw_specs)
        base         == <<Txt(LabelColor)>>
                        \o [i \in DOMAIN sorted_specs |-> Txt(sorted_specs[i])]
                        \o <<Txt(LabelRowTotal)>>
        headers      == IF Len(base) < min_columns
                        THEN base \o Repeat(Txt(EmptyStr), min_columns - Len(base))
                        ELSE base
        DataRow(color) ==
            LET qtys == [i \in DOMAIN sorted_specs |-> QtySum(group, color, sorted_specs[i])]
                row  == <<Txt(color)>> \o [i \in DOMAIN qtys |-> Num(qtys[i])]
                        \o <<Num(SumSeq(qtys))>>
            IN  row \o Repeat(Txt(EmptyStr), Len(headers) - Len(row))
    IN  [name          |-> type_name,
         title         |-> type_name \o Dash \o _get_formatted_date,
         headers       |-> headers,
         data          |-> [i \in DOMAIN colors |-> DataRow(colors[i])],
         specs         |-> sorted_specs,
         total_cols    |-> Len(headers),
         data_rows     |-> Len(colors),
         total_col_idx |-> Len(sorted_specs) + 2]

\* df.groupby(key): the sub-tables, in the sorted order of the key
GroupByType(df) ==
    LET keys == Sorted(UniqueTypes(df))
    IN  [k \in DOMAIN keys |->
            LET Match(r) == r.type = keys[k] IN SelectSeq(df, Match)]

GroupByPattern(type_data) ==
    LET keys == Sorted(UniquePatterns(type_data))
    IN  [k \in DOMAIN keys |->
            LET Match(r) == r.pattern = keys[k] IN SelectSeq(type_data, Match)]

\* all_type_data.items(): one table per type, in the order of the groups
_calculate_type_aggregation(df) ==
    LET groups == GroupByType(df)
    IN  [k \in DOMAIN groups |-> TypeTable(groups[k])]

\* PatternTotalColIdx without the clamp
PatternTotalColIdx_Unclamped(spec_count, total_cols) == spec_count + 2

\* total_col_idx of a pattern table: len(sorted_specs) + 2, clamped to
\* total_cols
PatternTotalColIdx(spec_count, total_cols) ==
    IF spec_count + 2 > total_cols THEN total_cols ELSE spec_count + 2

_get_pattern_table_structure(pattern_data) ==
    LET colors         == Sorted(UniqueColors(pattern_data))
        sorted_specs   == Sorted(UniqueSpecs(pattern_data))
        base_headers   == <<Txt(LabelColor)>>
                          \o [i \in DOMAIN sorted_specs |-> Txt(sorted_specs[i])]
                          \o <<Txt(LabelRowTotal)>>
        base_col_count == Len(base_headers)
        total_cols     == IF base_col_count < min_columns THEN min_columns
                          ELSE IF base_col_count > max_columns THEN max_columns
                          ELSE base_col_count
        headers        == IF base_col_count < min_columns
                          THEN base_headers
                               \o Repeat(Txt(EmptyStr), min_columns - base_col_count)
                          ELSE IF base_col_count > max_columns
                          THEN [Take(base_headers, max_columns)
                                    EXCEPT ![max_columns] = Txt(LabelRowTotal)]
                          ELSE base_headers
        total_col_idx  == PatternTotalColIdx(Len(sorted_specs), total_cols)
        DataRow(color) ==
            LET qtys == [i \in DOMAIN sorted_specs |->
                            QtySum(pattern_data, color, sorted_specs[i])]
                row  == <<Txt(color)>> \o [i \in DOMAIN qtys |-> Num(qtys[i])]
                        \o <<Num(SumSeq(qtys))>>
            IN  Take(row, total_cols) \o Repeat(Txt(EmptyStr), total_cols - Len(row))
    IN  [headers       |-> headers,
         data          |-> [i \in DOMAIN colors |-> DataRow(colors[i])],
         row_count     |-> Len(colors),
         total_cols    |-> total_cols,
         spec_count    |-> Len(sorted_specs),
         total_col_idx |-> total_col_idx]

\* sorted(seq, key=..., reverse=...) on the list of keys: the indices of seq
\* in their sorted order; the sort is stable, reversed or not
RECURSIVE StableOrder(_, _, _)
StableOrder(keys, left, reverse) ==
    IF left = {} THEN <<>>
    ELSE LET i == CHOOSE k \in left :
                    \A j \in left :
                        \/ (IF reverse THEN keys[k] > keys[j] ELSE keys[k] < keys[j])
                        \/ keys[k] = keys[j] /\ k <= j
         IN  <<i>> \o StableOrder(keys, left \ {i}, reverse)

_sort_patterns_by_columns(patterns, reverse) ==
    LET with_cols == [k \in DOMAIN patterns |->
                        LET struct == _get_pattern_table_structure(patterns[k])
                        IN  [name      |-> patterns[k][1].pattern,
                             col_count |-> struct.total_cols,
                             struct    |-> struct]]
        order == StableOrder([k \in DOMAIN with_cols |-> with_cols[k].col_count],
                             DOMAIN with_cols, reverse)
    IN  [k \in DOMAIN order |-> with_cols[order[k]]]

\* _group_by_column_range that keeps all tables in one band
_group_by_column_range_OneBand(sorted_patterns) == <<sorted_patterns>>

_group_by_column_range(sorted_patterns) ==
    LET In67(p)  == 6 <= p.col_count /\ p.col_count <= 7
        Not67(p) == ~In67(p)
        g67      == SelectSeq(sorted_patterns, In67)
        g810     == SelectSeq(sorted_patterns, Not67)
    IN  SelectSeq(<<g67, g810>>, LAMBDA g : g # <<>>)

\* ------------------------------------------------------------------------
\* Worksheets
\* ------------------------------------------------------------------------
\* a sheet as wb.active or wb.create_sheet() returns it; blocks lists the
\* blocks rendered so far with their anchors
NewSheet ==
    [title  |-> EmptyStr,
     value  |-> <<>>,
     border |-> <<>>,
     merged |-> {},
     width  |-> <<>>,
     blocks |-> <<>>]

\* "类型数据汇总" and "明细"
SummaryTitle == <<31867, 22411, 25968, 25454, 27719, 24635>>

DetailSuffix == <<26126, 32454>>

\* the same value v on every cell of S
Fill(S, v) == [cell \in S |-> v]

\* the cells of rows r1..r2 and columns c1..c2
Rect(r1, r2, c1, c2) == (r1..r2) \X (c1..c2)

\* PatternSpecSumCols without the break at the block's last column
PatternSpecSumCols_NoBreak(start_col, spec_count, col_end) ==
    (start_col + 1)..(start_col + spec_count)

\* the columns of the total row that get a per-size SUM formula
\* (_generate_single_pattern_block: the loop stops at the block's last column)
PatternSpecSumCols(start_col, spec_count, col_end) ==
    {col \in (start_col + 1)..(start_col + spec_count) : col <= col_end}

\* TotalFormula with a range that starts at the header row
TotalFormula_FromHeaderRow(col, data_start, data_end) ==
    SumFormula(col, data_start - 1, data_end)

\* the value of the total-row cell of column col
TotalFormula(col, data_start, data_end) == SumFormula(col, data_start, data_end)

\* the cells of the title row whose border is assigned: title_cell alone.
\* merge_cells runs before the assignment, on an anchor that has no border
\* yet, and the other cells of the merged range are never assigned one
TitleBorderCells(title_row, start_col, col_end) == {<<title_row, start_col>>}

\* PaddingCols with the loop running one column too far
PaddingCols_OnePast(start_col, total_cols, spec_count, total_col_idx) ==
    {start_col + off : off \in {o \in 0..total_cols :
        ~(o = 0 \/ (1 <= o /\ o <= spec_count) \/ o + 1 = total_col_idx)}}

\* the total-row cells of the padding columns
PaddingCols(start_col, total_cols, spec_count, total_col_idx) ==
    {start_col + off : off \in {o \in 0..(total_cols - 1) :
        ~(o = 0 \/ (1 <= o /\ o <= spec_count) \/ o + 1 = total_col_idx)}}

\* the row _generate_single_pattern_block returns
PatternBlockEndRow(struct, start_row) == (start_row + 2 + struct.row_count - 1) + 1

_generate_single_pattern_block(ws, pattern, start_row, start_col) ==
    LET struct     == pattern.struct
        col_end    == start_col + struct.total_cols - 1
        header_row == start_row + 1
        data_start == header_row + 1
        data_end   == data_start + struct.row_count - 1
        total_row  == data_end + 1
        total_col  == start_col + struct.total_col_idx - 1
        sum_cols   == PatternSpecSumCols(start_col, struct.spec_count, col_end)
        grand_cols == IF total_col <= col_end THEN {total_col} ELSE {}
        values ==
            [cell \in {total_row} \X grand_cols |->
                TotalFormula(cell[2], data_start, data_end)]
            @@ [cell \in {total_row} \X sum_cols |->
                TotalFormula(cell[2], data_start, data_end)]
            @@ (<<total_row, start_col>> :> Txt(LabelTotal))
            @@ [cell \in Rect(data_start, data_start + Len(struct.data) - 1,
                              start_col, col_end) |->
                struct.data[cell[1] - data_start + 1][cell[2] - start_col + 1]]
            @@ [cell \in Rect(header_row, header_row, start_col, col_end) |->
                struct.headers[cell[2] - start_col + 1]]
            @@ (<<start_row, start_col>> :> Txt(pattern.title))
        bordered ==
            TitleBorderCells(start_row, start_col, col_end)
            \cup Rect(header_row, header_row, start_col, col_end)
            \cup Rect(data_start, data_start + Len(struct.data) - 1, start_col, col_end)
            \cup {<<total_row, start_col>>}
            \cup ({total_row} \X sum_cols)
            \cup ({total_row} \X grand_cols)
            \cup ({total_row} \X PaddingCols(start_col, struct.total_cols,
                                             struct.spec_count, struct.total_col_idx))
    IN  [ws EXCEPT
            !.merged = @ \cup {<<start_row, start_col, start_row, col_end>>},
            !.value  = values @@ @,
            !.border = Fill(bordered, "thin") @@ @,
            !.width  = Fill(start_col..col_end, 75) @@ @,
            !.blocks = Append(@, [name          |-> pattern.name,
                                  row           |-> start_row,
                                  col           |-> start_col,
                                  total_cols    |-> struct.total_cols,
                                  data_rows     |-> struct.row_count,
                                  spec_count    |-> struct.spec_count,
                                  total_col_idx |-> struct.total_col_idx,
                                  end_row       |-> total_row])]

\* the cells of the spacer rows below a summary block whose border is removed
SummarySpacerCells(total_row, total_cols) ==
    Rect(total_row + 1, total_row + block_spacing - 1, 1, total_cols)

\* SummaryNextRow without the spacing
SummaryNextRow_NoSpacing(total_row) == total_row

\* the row at which the next summary block starts
SummaryNextRow(total_row) == total_row + block_spacing

\* one iteration of the loop of _generate_original_type_sheet: the block of
\* one type at current_row
SummaryBlock(ws, type_data, current_row) ==
    LET title_row  == current_row
        header_row == current_row + 1
        data_start == header_row + 1
        data_end   == data_start + type_data.data_rows - 1
        total_row  == data_end + 1
        total_cols == type_data.total_cols
        nspecs     == Len(type_data.specs)
        sum_cols   == {2 + off : off \in 0..(nspecs - 1)}
        values ==
            (<<total_row, type_data.total_col_idx>> :>
                TotalFormula(type_data.total_col_idx, data_start, data_end))
            @@ [cell \in {total_row} \X sum_cols |->
                TotalFormula(cell[2], data_start, data_end)]
            @@ (<<total_row, 1>> :> Txt(LabelTotal))
            @@ [cell \in Rect(data_start, data_start + Len(type_data.data) - 1,
                              1, total_cols) |->
                LET data_row == type_data.data[cell[1] - data_start + 1]
                IN  IF cell[2] - 1 < Len(data_row) THEN data_row[cell[2]]
                    ELSE Txt(EmptyStr)]
            @@ [cell \in Rect(header_row, header_row, 1, total_cols) |->
                type_data.headers[cell[2]]]
            @@ (<<title_row, 1>> :> Txt(type_data.title))
        bordered ==
            TitleBorderCells(title_row, 1, total_cols)
            \cup Rect(header_row, header_row, 1, total_cols)
            \cup Rect(data_start, data_start + Len(type_data.data) - 1, 1, total_cols)
            \cup {<<total_row, 1>>}
            \cup ({total_row} \X sum_cols)
            \cup {<<total_row, type_data.total_col_idx>>}
            \cup ({total_row} \X PaddingCols(1, total_cols, nspecs,
                                             type_data.total_col_idx))
    IN  [ws EXCEPT
            !.merged = @ \cup {<<title_row, 1, title_row, total_cols>>},
            !.value  = values @@ @,
            !.border = Fill(SummarySpacerCells(total_row, total_cols), "none")
                       @@ Fill(bordered, "thin") @@ @,
            !.width  = Fill(1..total_cols, 75) @@ @,
            !.blocks = Append(@, [name          |-> type_data.name,
                                  row           |-> title_row,
                                  col           |-> 1,
                                  total_cols    |-> total_cols,
                                  data_rows     |-> type_data.data_rows,
                                  spec_count    |-> nspecs,
                                  total_col_idx |-> type_data.total_col_idx,
                                  end_row       |-> total_row])]

\* SortedTypes without reverse=True
SortedTypes_Ascending(aggregation_data) ==
    LET order == StableOrder([k \in DOMAIN aggregation_data |->
                                 aggregation_data[k].total_cols],
                             DOMAIN aggregation_data, FALSE)
    IN  [k \in DOMAIN order |-> aggregation_data[order[k]]]

\* sorted(aggregation_data.items(), key=total_cols, reverse=True)
SortedTypes(aggregation_data) ==
    LET order == StableOrder([k \in DOMAIN aggregation_data |->
                                 aggregation_data[k].total_cols],
                             DOMAIN aggregation_data, TRUE)
    IN  [k \in DOMAIN order |-> aggregation_data[order[k]]]

\* _format_blank_column: the cells whose border is removed
BlankColumnCells(start_row, end_row, col_idx) == Rect(start_row, end_row, col_idx, col_idx)

\* NextPairRow that forgets the right block
NextPairRow_LeftOnly(left_end_row, right_end_row) == left_end_row + block_spacing

\* the start row of the pair after a pair whose blocks end at the given rows
NextPairRow(left_end_row, right_end_row) ==
    Max(left_end_row, right_end_row) + block_spacing

\* HasRight that misses the last table of the band
HasRight_Strict(group, i) == i + 1 < Len(group)

\* the pair that starts at position i (counted from 1) has a right table
HasRight(group, i) == i + 1 <= Len(group)

\* one iteration of the inner loop of _generate_type_pattern_sheet: the pair
\* group[i], group[i+1] (positions counted from 1 here) at current_row
DetailPair(ws, type_name, group, i, current_row) ==
    LET Titled(p) == [name   |-> p.name,
                      struct |-> p.struct,
                      title  |-> type_name \o Dash \o p.name
                                 \o Dash \o _get_formatted_date]
        pattern1  == Titled(group[i])
        ws1       == _generate_single_pattern_block(ws, pattern1, current_row,
                                                    left_start_col)
        left_end_row  == PatternBlockEndRow(pattern1.struct, current_row)
        has_right     == HasRight(group, i)
        pattern2      == Titled(group[i + 1])
        ws2       == IF has_right
                     THEN _generate_single_pattern_block(ws1, pattern2, current_row,
                                                         right_start_col)
                     ELSE ws1
        right_end_row == IF has_right
                         THEN PatternBlockEndRow(pattern2.struct, current_row)
                         ELSE left_end_row
        next_row  == NextPairRow(left_end_row, right_end_row)
        space_col == left_start_col + pattern1.struct.total_cols
        cleared   == Rect(next_row - block_spacing, next_row - 1,
                          left_start_col + pattern1.struct.total_cols + 1,
                          right_start_col - 1)
    IN  [ws2 EXCEPT
            !.border = Fill(cleared, "none")
                       @@ Fill(BlankColumnCells(next_row - block_spacing,
                                                Max(left_end_row, right_end_row),
                                                space_col), "none")
                       @@ @,
            !.width  = (space_col :> space_col_width * 10) @@ @]

\* ------------------------------------------------------------------------
\* CompleteTableGenerator.generate as a state machine
\* ------------------------------------------------------------------------
VARIABLES
    pc,             \* the position of generate()
    input,          \* the table pd.read_excel returns
    df,             \* the standardized table
    wb,             \* the workbook: its sheets in order
    sorted_types,   \* _generate_original_type_sheet: the tables in block order
    type_groups,    \* generate: df.groupby("类型")
    pattern_groups, \* _generate_type_pattern_sheet: the width bands
    k,              \* the index of the current type (summary or detail loop)
    gi,             \* the index of the current width band
    i,              \* the position of the left table of the current pair
    current_row,    \* the next free row of the sheet being filled
    output,         \* what generate() printed and returned
    raised,         \* the exception that ended the run
    saved,          \* wb.save has written the file
    args,           \* the arguments of a call of one of the cleaning functions
    returned        \* what that call returned

vars == <<pc, input, df, wb, sorted_types, type_groups, pattern_groups,
          k, gi, i, current_row, output, raised, saved, args, returned>>

\* get_output_path(): the file the workbook is saved to
OutputPath == "xlsx"

Init ==
    /\ pc = "standardize"
    /\ input \in Inputs
    /\ df = <<>>
    /\ wb = <<>>
    /\ sorted_types = <<>>
    /\ type_groups = <<>>
    /\ pattern_groups = <<>>
    /\ k = 0
    /\ gi = 0
    /\ i = 0
    /\ current_row = 0
    /\ output = "none"
    /\ raised = "none"
    /\ saved = FALSE
    /\ args = <<>>
    /\ returned = <<>>

\* generate, lines 467-469
Standardize ==
    /\ pc = "standardize"
    /\ IF MissingFields(input) # {}
       THEN /\ raised' = "ValueError"
            /\ pc' = "failed"
            /\ UNCHANGED df
       ELSE /\ df' = standardize(input)
            /\ pc' = "aggregate"
            /\ UNCHANGED raised
    /\ UNCHANGED <<input, wb, sorted_types, type_groups, pattern_groups,
                   k, gi, i, current_row, output, saved,
                   args, returned>>

\* generate, lines 471-475, and the head of _generate_original_type_sheet
Aggregate ==
    /\ pc = "aggregate"
    /\ wb' = <<[NewSheet EXCEPT !.title = SummaryTitle]>>
    /\ sorted_types' = SortedTypes(_calculate_type_aggregation(df))
    /\ current_row' = 1
    /\ k' = 1
    /\ pc' = "summary"
    /\ UNCHANGED <<input, df, type_groups, pattern_groups, gi, i, output, raised, saved,
                   args, returned>>

\* one iteration of the loop of _generate_original_type_sheet; after the last
\* one generate goes on to the detail sheets
GenerateSummaryBlock ==
    /\ pc = "summary"
    /\ k <= Len(sorted_types)
    /\ wb' = [wb EXCEPT ![1] = SummaryBlock(@, sorted_types[k], current_row)]
    /\ current_row' = SummaryNextRow(wb'[1].blocks[k].end_row)
    /\ IF k < Len(sorted_types)
       THEN /\ k' = k + 1
            /\ UNCHANGED <<pc, type_groups>>
       ELSE /\ k' = 1
            /\ type_groups' = GroupByType(df)
            /\ pc' = "detail"
    /\ UNCHANGED <<input, df, sorted_types, pattern_groups, gi, i, output, raised, saved,
                   args, returned>>

\* generate, line 480, and _generate_type_pattern_sheet, lines 420-430
BeginDetailSheet ==
    /\ pc = "detail"
    /\ k <= Len(type_groups)
    /\ wb' = Append(wb, [NewSheet EXCEPT
                            !.title = type_groups[k][1].type \o DetailSuffix])
    /\ pattern_groups' = _group_by_column_range(
                            _sort_patterns_by_columns(
                                GroupByPattern(type_groups[k]), FALSE))
    /\ current_row' = 1
    /\ gi' = 1
    /\ i' = 1
    /\ pc' = "pairs"
    /\ UNCHANGED <<input, df, sorted_types, type_groups, k, output, raised, saved,
                   args, returned>>

\* one iteration of the inner loop of _generate_type_pattern_sheet
GenerateDetailPair ==
    /\ pc = "pairs"
    /\ gi <= Len(pattern_groups)
    /\ LET group == pattern_groups[gi]
           sheet == DetailPair(wb[Len(wb)], type_groups[k][1].type, group, i,
                               current_row)
           n     == Len(sheet.blocks)
           left  == IF HasRight(group, i) THEN sheet.blocks[n - 1]
                    ELSE sheet.blocks[n]
       IN  /\ wb' = [wb EXCEPT ![Len(wb)] = sheet]
           /\ current_row' = NextPairRow(left.end_row, sheet.blocks[n].end_row)
           /\ IF i + 2 <= Len(group)
              THEN /\ i' = i + 2
                   /\ UNCHANGED <<gi, k, pc>>
              ELSE IF gi < Len(pattern_groups)
              THEN /\ i' = 1
                   /\ gi' = gi + 1
                   /\ UNCHANGED <<k, pc>>
              ELSE /\ i' = 1
                   /\ gi' = 1
                   /\ k' = k + 1
                   /\ pc' = "detail"
    /\ UNCHANGED <<input, df, sorted_types, type_groups, pattern_groups, output,
                   raised, saved,
                   args, returned>>

\* AfterSave with the exception of wb.save swallowed
AfterSave_IgnoreFailure(written) == "saved"

\* where generate() stands after wb.save: at the print when the file was
\* written; an exception of wb.save is not caught and ends generate()
AfterSave(written) == IF written THEN "saved" ELSE "failed"

\* generate, lines 483-484: the workbook is saved, or wb.save raises (the file
\* is open elsewhere, the disk is full)
Save ==
    /\ pc = "detail"
    /\ k > Len(type_groups)
    /\ \E written \in BOOLEAN :
        /\ pc' = AfterSave(written)
        /\ saved' = written
        /\ raised' = IF written THEN raised ELSE "OSError"
    /\ UNCHANGED <<input, df, wb, sorted_types, type_groups, pattern_groups,
                   k, gi, i, current_row, output,
                   args, returned>>

\* generate, lines 485-486: the path is printed and returned
Return ==
    /\ pc = "saved"
    /\ output' = OutputPath
    /\ pc' = "done"
    /\ UNCHANGED <<input, df, wb, sorted_types, type_groups, pattern_groups,
                   k, gi, i, current_row, raised, saved,
                   args, returned>>

Next ==
    \/ Standardize
    \/ Aggregate
    \/ GenerateSummaryBlock
    \/ BeginDetailSheet
    \/ GenerateDetailPair
    \/ Save
    \/ Return

Spec == Init /\ [][Next]_vars

\* ------------------------------------------------------------------------
\* What the claims speak about
\* ------------------------------------------------------------------------
\* the summary tables, once computed
SummaryTables == {sorted_types[n] : n \in DOMAIN sorted_types}

\* the pattern tables of the detail sheet being filled
DetailTables ==
    IF pc = "pairs"
    THEN UNION {{pattern_groups[g][j] : j \in DOMAIN pattern_groups[g]} :
                g \in DOMAIN pattern_groups}
    ELSE {}

CurrentType == type_groups[k][1].type

\* the sum of the quantities of the records of df of one type (and pattern,
\* and color; "" stands for any)
Total(type, pattern, color) ==
    LET Match(r) == /\ r.type = type
                    /\ pattern = EmptyStr \/ r.pattern = pattern
                    /\ color = EmptyStr \/ r.color = color
        sel      == SelectSeq(df, Match)
    IN  SumSeq([n \in DOMAIN sel |-> sel[n].qty])

\* sheet s of the workbook is finished: a later sheet exists, or generate is
\* between two sheets or through
Finished(s) ==
    s \in DOMAIN wb /\ (s < Len(wb) \/ pc \in {"detail", "saved", "done", "failed"})

Blocks(s) == {wb[s].blocks[n] : n \in DOMAIN wb[s].blocks}

\* the rectangle a block owns
BlockCells(b) == Rect(b.row, b.end_row, b.col, b.col + b.total_cols - 1)

HasBorder(s, cell) == cell \in DOMAIN wb[s].border /\ wb[s].border[cell] = "thin"

\* the number a cell shows in a sum: a text or an empty cell counts 0
CellNumber(s, cell) ==
    IF cell \in DOMAIN wb[s].value /\ wb[s].value[cell][1] = "n"
    THEN wb[s].value[cell][2][1]
    ELSE 0

IsFormula(s, cell) == cell \in DOMAIN wb[s].value /\ wb[s].value[cell][1] = "f"

\* the value of the formula =SUM(col r1 : col r2) held by a cell of sheet s
EvalSum(s, cell) ==
    LET f == wb[s].value[cell][2]
    IN  SumSeq([n \in 1..(f[3] - f[2] + 1) |-> CellNumber(s, <<f[2] + n - 1, f[1]>>)])

WellShaped(total_cols, headers, data) ==
    /\ min_columns <= total_cols
    /\ total_cols <= max_columns
    /\ Len(headers) = total_cols
    /\ \A r \in DOMAIN data : Len(data[r]) = total_cols

\* ------------------------------------------------------------------------
\* C1: every table, summary or detail, has between 6 and 10 columns, as many
\* headers as columns and as many cells in every data row.
\* The summary tables are never cut to max_columns.
\* ------------------------------------------------------------------------
C1_TablesWithinColumnBounds ==
    /\ \A t \in SummaryTables : WellShaped(t.total_cols, t.headers, t.data)
    /\ \A p \in DetailTables :
        WellShaped(p.struct.total_cols, p.struct.headers, p.struct.data)

\* ------------------------------------------------------------------------
\* C2: in every color row of every table the cell of the row-total column is
\* the sum of that color's quantities over all sizes of the group.
\* A pattern table with more sizes than fit loses the total when the row is
\* cut: the cell holds the quantity of a size.
\* ------------------------------------------------------------------------
C2_RowTotalIsSumOverAllSizes ==
    /\ \A t \in SummaryTables : \A r \in DOMAIN t.data :
        /\ t.total_col_idx <= Len(t.data[r])
        /\ t.data[r][t.total_col_idx] = Num(Total(t.name, EmptyStr, t.data[r][1][2]))
    /\ \A p \in DetailTables : \A r \in DOMAIN p.struct.data :
        /\ p.struct.total_col_idx <= Len(p.struct.data[r])
        /\ p.struct.data[r][p.struct.total_col_idx]
            = Num(Total(CurrentType, p.name, p.struct.data[r][1][2]))

\* ------------------------------------------------------------------------
\* C3: on every sheet no two blocks share a cell.
\* ------------------------------------------------------------------------
C3_BlocksDoNotOverlap ==
    \A s \in DOMAIN wb : \A m, n \in DOMAIN wb[s].blocks :
        m # n => BlockCells(wb[s].blocks[m]) \cap BlockCells(wb[s].blocks[n]) = {}

\* a finished detail sheet with two blocks side by side and a block below
C3_Witness ==
    \E s \in DOMAIN wb :
        /\ Finished(s)
        /\ \E a, b, c \in Blocks(s) :
            /\ a.row = b.row /\ a.col < b.col
            /\ c.row > a.end_row /\ c.row > b.end_row

\* ------------------------------------------------------------------------
\* C4: on a finished sheet every cell of every block rectangle, the cells of
\* the merged title row included, has the thin border.
\* Only the first cell of the title row is given a border.
\* ------------------------------------------------------------------------
C4_EveryBlockCellBordered ==
    \A s \in DOMAIN wb :
        Finished(s) => \A b \in Blocks(s) : \A cell \in BlockCells(b) : HasBorder(s, cell)

\* ------------------------------------------------------------------------
\* C5: on a finished sheet no cell outside all block rectangles has a border.
\* ------------------------------------------------------------------------
C5_NoBorderOutsideBlocks ==
    \A s \in DOMAIN wb :
        Finished(s) =>
            \A cell \in DOMAIN wb[s].border :
                HasBorder(s, cell) => \E b \in Blocks(s) : cell \in BlockCells(b)

\* a finished detail sheet with two blocks side by side, the spacer cells
\* between them cleared, and a finished summary sheet with a cleared row
C5_Witness ==
    /\ pc = "done"
    /\ \E cell \in DOMAIN wb[1].border : wb[1].border[cell] = "none"
    /\ \E s \in DOMAIN wb :
        /\ \E a, b \in Blocks(s) : a.row = b.row /\ a.col < b.col
        /\ \E cell \in DOMAIN wb[s].border :
            /\ wb[s].border[cell] = "none"
            /\ \A b \in Blocks(s) : cell \notin BlockCells(b)

\* ------------------------------------------------------------------------
\* C6: in the total row of the summary block of a type, the formula of the
\* row-total column sums, over the rendered data cells, to the sum of the
\* quantities of all records of the type, and so do the formulas of the size
\* columns together.
\* ------------------------------------------------------------------------
C6_SummaryGrandTotal ==
    Finished(1) =>
        \A b \in Blocks(1) :
            /\ IsFormula(1, <<b.end_row, b.total_col_idx>>)
            /\ EvalSum(1, <<b.end_row, b.total_col_idx>>) = Total(b.name, EmptyStr, EmptyStr)
            /\ \A c \in 2..(1 + b.spec_count) : IsFormula(1, <<b.end_row, c>>)
            /\ SumSeq([n \in 1..b.spec_count |-> EvalSum(1, <<b.end_row, 1 + n>>)])
                = Total(b.name, EmptyStr, EmptyStr)

\* a finished summary sheet with the block of a type that has several colors,
\* several sizes and a positive total
C6_Witness ==
    /\ Finished(1)
    /\ \E b \in Blocks(1) :
        /\ b.data_rows >= 2
        /\ b.spec_count >= 2
        /\ Total(b.name, EmptyStr, EmptyStr) > 0
        /\ IsFormula(1, <<b.end_row, b.total_col_idx>>)

\* ------------------------------------------------------------------------
\* C7: in every block the total-row cells of the size columns and of the
\* row-total column hold a SUM formula over their own column, from the first
\* data row of the block to its last data row.
\* ------------------------------------------------------------------------
\* the columns of block b that show a size
SizeColumns(b) ==
    {b.col + n : n \in {m \in 1..b.spec_count : m + 1 <= b.total_cols}}

C7_TotalRowFormulas ==
    \A s \in DOMAIN wb : \A b \in Blocks(s) :
        \A c \in SizeColumns(b) \cup {b.col + b.total_col_idx - 1} :
            /\ <<b.end_row, c>> \in DOMAIN wb[s].value
            /\ wb[s].value[<<b.end_row, c>>]
                = SumFormula(c, b.row + 2, b.row + 1 + b.data_rows)

\* a block that is neither the first of its sheet nor in the first column,
\* with several data rows
C7_Witness ==
    \E s \in DOMAIN wb : \E b \in Blocks(s) :
        /\ b.col = right_start_col
        /\ b.row > 1
        /\ b.data_rows >= 2
        /\ IsFormula(s, <<b.end_row, b.col + 1>>)

\* ------------------------------------------------------------------------
\* C8: the finished workbook has one summary sheet with one block per type
\* and, for every type, one detail sheet with one block per pattern of the
\* type.
\* ------------------------------------------------------------------------
DetailSheetOf(type) == {s \in 2..Len(wb) : wb[s].title = type \o DetailSuffix}

C8_SheetsAndBlocks ==
    pc = "done" =>
        /\ Len(wb) = 1 + Cardinality(UniqueTypes(df))
        /\ wb[1].title = SummaryTitle
        /\ Len(wb[1].blocks) = Cardinality(UniqueTypes(df))
        /\ {b.name : b \in Blocks(1)} = UniqueTypes(df)
        /\ \A type \in UniqueTypes(df) :
            /\ Cardinality(DetailSheetOf(type)) = 1
            /\ \A s \in DetailSheetOf(type) :
                LET patterns == {df[n].pattern : n \in {m \in DOMAIN df : df[m].type = type}}
                IN  /\ Len(wb[s].blocks) = Cardinality(patterns)
                    /\ {b.name : b \in Blocks(s)} = patterns

\* a finished workbook of several types, one of them with several patterns
C8_Witness ==
    /\ pc = "done"
    /\ Cardinality(UniqueTypes(df)) >= 2
    /\ \E s \in 2..Len(wb) : Len(wb[s].blocks) >= 2

\* ------------------------------------------------------------------------
\* C9: on a detail sheet the tables of a width band are placed in pairs: the
\* odd ones in column 1, the even ones in column 12 on the row of their left
\* neighbour; a pair starts 2 rows below the lower end of the pair before;
\* the last table of a band of odd length stands alone on the left.
\* ------------------------------------------------------------------------
\* the blocks of a sheet that belong to the band of 6 to 7 columns, and the others
Band67(s) ==
    LET In67(b) == 6 <= b.total_cols /\ b.total_cols <= 7
    IN  SelectSeq(wb[s].blocks, In67)

Band810(s) ==
    LET Not67(b) == ~(6 <= b.total_cols /\ b.total_cols <= 7)
    IN  SelectSeq(wb[s].blocks, Not67)

PairedInBand(s, band) ==
    \A j \in DOMAIN band :
        /\ j % 2 = 1 => band[j].col = left_start_col
        /\ j % 2 = 0 => band[j].col = right_start_col /\ band[j].row = band[j - 1].row
        /\ (j % 2 = 1 /\ j >= 3) =>
            band[j].row = Max(band[j - 2].end_row, band[j - 1].end_row) + block_spacing
        /\ (j % 2 = 1 /\ j = Len(band)) =>
            \A b \in Blocks(s) : b.row = band[j].row => b = band[j]

C9_DetailPairs ==
    \A s \in 2..Len(wb) : PairedInBand(s, Band67(s)) /\ PairedInBand(s, Band810(s))

\* a band of three tables whose second table, on the right, ends lower than
\* the first, and whose third table stands alone
C9_Witness ==
    \E s \in 2..Len(wb) :
        /\ Finished(s)
        /\ Len(Band67(s)) = 3
        /\ Band67(s)[2].end_row > Band67(s)[1].end_row
        /\ Band67(s)[3].row = Band67(s)[2].end_row + block_spacing

\* ------------------------------------------------------------------------
\* C10: the blocks of the summary sheet are all anchored in column 1, the
\* first at row 1, each below the one before, in non-increasing order of
\* their column count.
\* ------------------------------------------------------------------------
C10_SummaryOrder ==
    wb # <<>> =>
        LET bs == wb[1].blocks
        IN  /\ \A n \in DOMAIN bs : bs[n].col = 1
            /\ bs # <<>> => bs[1].row = 1
            /\ \A n \in 2..Len(bs) :
                /\ bs[n].row > bs[n - 1].end_row
                /\ bs[n].total_cols <= bs[n - 1].total_cols

\* a finished summary sheet where the type that comes first by name is not
\* the widest
C10_Witness ==
    /\ Finished(1)
    /\ \E m, n \in DOMAIN wb[1].blocks :
        /\ m < n
        /\ wb[1].blocks[m].total_cols > wb[1].blocks[n].total_cols
        /\ StrLess(wb[1].blocks[n].name, wb[1].blocks[m].name)

\* the rows strictly between a block and the block rendered after it
RowsBetween(upper, lower) == (upper.end_row + 1)..(lower.row - 1)

HasNoBorder(s, cell) == cell \in DOMAIN wb[s].border /\ wb[s].border[cell] = "none"

\* ------------------------------------------------------------------------
\* C11: on the summary sheet there are exactly block_spacing = 2 rows of no
\* block between a block's total row and the title row of the next block, and
\* every such row has its border suppressed across the upper block's width.
\* The next block starts at total_row + block_spacing, which leaves one row
\* between the two blocks.
\* ------------------------------------------------------------------------
C11_TwoSpacerRows ==
    Finished(1) =>
        \A n \in 1..(Len(wb[1].blocks) - 1) :
            LET upper == wb[1].blocks[n]
                lower == wb[1].blocks[n + 1]
            IN  /\ Cardinality(RowsBetween(upper, lower)) = block_spacing
                /\ \A row \in RowsBetween(upper, lower) :
                    \A col \in 1..upper.total_cols : HasNoBorder(1, <<row, col>>)

\* the sizes at the head of the size columns of a table, left to right
ShownSizes(headers, total_col_idx) == [n \in 1..(total_col_idx - 2) |-> headers[n + 1][2]]

\* the sizes of the records of df of one type (and pattern; "" stands for any)
SizesOf(type, pattern) ==
    {df[r].spec : r \in {x \in DOMAIN df :
        df[x].type = type /\ (pattern = EmptyStr \/ df[x].pattern = pattern)}}

\* a row of sizes is in the one order the sizes of its group call for
InPolicyOrder(shown, sizes) ==
    \A m, n \in DOMAIN shown :
        m < n => IF \A x \in sizes : IsNumeric(x)
                 THEN NumVal(shown[m]) < NumVal(shown[n])
                 ELSE StrLess(shown[m], shown[n])

\* ------------------------------------------------------------------------
\* C12: in every table, summary or detail, the size columns stand in
\* ascending numeric order when every size of the group is a number, and in
\* lexicographic order otherwise.
\* The detail tables sort the sizes as strings whatever they are: "10" comes
\* before "2".
\* ------------------------------------------------------------------------
C12_SizeColumnsInPolicyOrder ==
    /\ \A t \in SummaryTables :
        InPolicyOrder(ShownSizes(t.headers, t.total_col_idx), SizesOf(t.name, EmptyStr))
    /\ \A p \in DetailTables :
        InPolicyOrder(ShownSizes(p.struct.headers, p.struct.total_col_idx),
                      SizesOf(CurrentType, p.name))

\* the colors of the records of df of one type (and pattern)
ColorsOf(type, pattern) ==
    {df[r].color : r \in {x \in DOMAIN df :
        df[x].type = type /\ (pattern = EmptyStr \/ df[x].pattern = pattern)}}

\* the sum of the quantities of the records of df of one type (and pattern)
\* with one color and one size; 0 when there is none
TotalAt(type, pattern, color, spec) ==
    LET Match(r) == /\ r.type = type
                    /\ pattern = EmptyStr \/ r.pattern = pattern
                    /\ r.color = color
                    /\ r.spec = spec
        sel      == SelectSeq(df, Match)
    IN  SumSeq([n \in DOMAIN sel |-> sel[n].qty])

\* the rows of a table are its group's colors, once each, in lexicographic
\* order
ColorRowsInOrder(data, type, pattern) ==
    /\ {data[r][1][2] : r \in DOMAIN data} = ColorsOf(type, pattern)
    /\ \A m, n \in DOMAIN data : m < n => StrLess(data[m][1][2], data[n][1][2])

\* every row holds, under every size column of the table, the quantity sum of
\* its color and that size
QuantityUnderEverySizeColumn(headers, data, total_col_idx, type, pattern) ==
    \A r \in DOMAIN data : \A n \in 2..(total_col_idx - 1) :
        data[r][n] = Num(TotalAt(type, pattern, data[r][1][2], headers[n][2]))

\* every size of the group heads a column whose cell, in every row, is the
\* quantity sum of the row's color and that size
EverySizeHasItsCell(headers, data, type, pattern) ==
    \A x \in SizesOf(type, pattern) :
        \E n \in DOMAIN headers :
            /\ headers[n] = Txt(x)
            /\ \A r \in DOMAIN data :
                data[r][n] = Num(TotalAt(type, pattern, data[r][1][2], x))

\* a detail table is cut: label, sizes and row total exceed max_columns
IsCut(struct) == struct.spec_count + 2 > max_columns

\* ------------------------------------------------------------------------
\* C13 as stated: in every table each color row holds a quantity cell for
\* every distinct size of the group, the sum of the records of that color and
\* size, 0 when there is none; colors appear once each in lexicographic order.
\* A detail table cut to max_columns has no column for its last sizes.
\* ------------------------------------------------------------------------
C13_Stated_CellForEverySize ==
    /\ \A t \in SummaryTables :
        /\ ColorRowsInOrder(t.data, t.name, EmptyStr)
        /\ EverySizeHasItsCell(t.headers, t.data, t.name, EmptyStr)
    /\ \A p \in DetailTables :
        /\ ColorRowsInOrder(p.struct.data, CurrentType, p.name)
        /\ EverySizeHasItsCell(p.struct.headers, p.struct.data, CurrentType, p.name)

\* ------------------------------------------------------------------------
\* C13 (amended): in every table each color row holds a quantity cell under
\* every size column of the table, the sum of the records of that color and
\* size, 0 when there is none; colors appear once each in lexicographic
\* order; a summary table and a detail table that is not cut have a column
\* for every distinct size of the group, a cut detail table for 8 of them.
\* ------------------------------------------------------------------------
C13_CellUnderEverySizeColumn ==
    /\ \A t \in SummaryTables :
        /\ ColorRowsInOrder(t.data, t.name, EmptyStr)
        /\ QuantityUnderEverySizeColumn(t.headers, t.data, t.total_col_idx,
                                        t.name, EmptyStr)
        /\ EverySizeHasItsCell(t.headers, t.data, t.name, EmptyStr)
    /\ \A p \in DetailTables :
        /\ ColorRowsInOrder(p.struct.data, CurrentType, p.name)
        /\ QuantityUnderEverySizeColumn(p.struct.headers, p.struct.data,
                                        p.struct.total_col_idx, CurrentType, p.name)
        /\ IF IsCut(p.struct)
           THEN /\ Len(ShownSizes(p.struct.headers, p.struct.total_col_idx)) = max_columns - 2
                /\ {p.struct.headers[n][2] : n \in 2..(p.struct.total_col_idx - 1)}
                        \subseteq SizesOf(CurrentType, p.name)
           ELSE EverySizeHasItsCell(p.struct.headers, p.struct.data,
                                    CurrentType, p.name)

\* a cut detail table of several colors with a 0 under a size column where no
\* record has the row's color and that size
C13_Witness ==
    \E p \in DetailTables :
        /\ IsCut(p.struct)
        /\ Len(p.struct.data) > 1
        /\ \E r \in DOMAIN p.struct.data : \E n \in 2..(p.struct.total_col_idx - 1) :
            /\ p.struct.data[r][n] = Num(0)
            /\ \A x \in DOMAIN df :
                ~ /\ df[x].type = CurrentType
                  /\ df[x].pattern = p.name
                  /\ df[x].color = p.struct.data[r][1][2]
                  /\ df[x].spec = p.struct.headers[n][2]

\* the table of a group of exactly 9 sizes as it is promised: 10 columns, the
\* color label, the first 8 sizes, the row-total label, and in every row the
\* sum over all 9 sizes in column 10
NineSizesInTenColumns(total_cols, headers, data, type, pattern) ==
    LET first8 == Take(_sort_specs(Sorted(SizesOf(type, pattern))), max_columns - 2)
    IN  /\ total_cols = max_columns
        /\ Len(headers) = max_columns
        /\ headers[1] = Txt(LabelColor)
        /\ \A n \in 1..(max_columns - 2) : headers[n + 1] = Txt(first8[n])
        /\ headers[max_columns] = Txt(LabelRowTotal)
        /\ \A r \in DOMAIN data :
            /\ Len(data[r]) = max_columns
            /\ data[r][max_columns] = Num(Total(type, pattern, data[r][1][2]))

\* ------------------------------------------------------------------------
\* C14: a table of a group with exactly 9 distinct sizes has 10 columns: the
\* color label, the first 8 sizes, and under the row-total label the sum over
\* all 9 sizes in every data row.
\* The summary table of such a group has 11 columns; the detail table has 10,
\* and its column 10 holds the quantity of the 9th size.
\* ------------------------------------------------------------------------
C14_NineSizesFoldedIntoTotal ==
    /\ \A t \in SummaryTables :
        Cardinality(SizesOf(t.name, EmptyStr)) = max_columns - 1
            => NineSizesInTenColumns(t.total_cols, t.headers, t.data, t.name, EmptyStr)
    /\ \A p \in DetailTables :
        Cardinality(SizesOf(CurrentType, p.name)) = max_columns - 1
            => NineSizesInTenColumns(p.struct.total_cols, p.struct.headers,
                                     p.struct.data, CurrentType, p.name)

\* the cells of columns 1 to n of a row of sheet s, as a list
RowValues(s, row, n) == [c \in 1..n |-> wb[s].value[<<row, c>>]]

\* df holds the records (A, Red, S, 3), (A, Red, M, 5), (A, Blue, S, 2)
DfIsScenario ==
    /\ Len(df) = 3
    /\ {<<df[r].type, df[r].color, df[r].spec, df[r].qty>> : r \in DOMAIN df}
        = {<<<<65>>, <<82, 101, 100>>, <<83>>, 3>>,
           <<<<65>>, <<82, 101, 100>>, <<77>>, 5>>,
           <<<<65>>, <<66, 108, 117, 101>>, <<83>>, 2>>}

\* the block of the scenario is the first of the summary sheet: title in row
\* 1, headers in row 2, the two colors in rows 3 and 4, totals in row 5
ScenarioTotals(first, second, total) ==
    /\ wb[1].value[<<5, 1>>] = Txt(<<21512, 35745>>)
    /\ IsFormula(1, <<5, 2>>) /\ EvalSum(1, <<5, 2>>) = first
    /\ IsFormula(1, <<5, 3>>) /\ EvalSum(1, <<5, 3>>) = second
    /\ IsFormula(1, <<5, 4>>) /\ EvalSum(1, <<5, 4>>) = total

\* ------------------------------------------------------------------------
\* C15 as stated: for the records (A,Red,S,3), (A,Red,M,5), (A,Blue,S,2) the
\* summary block of A has the headers [颜色, S, M, 行合计, "", ""], the rows
\* [Red,3,5,8,"",""] and [Blue,2,0,2,"",""] in that order, and a total row
\* labelled 合计 whose formulas give 5, 5 and 10.
\* Sizes and colors are sorted as strings: M comes before S, Blue before Red.
\* ------------------------------------------------------------------------
C15_Stated_ScenarioBlock ==
    (DfIsScenario /\ Finished(1)) =>
        /\ wb[1].blocks[1].total_cols = 6
        /\ RowValues(1, 2, 6) = <<Txt(<<39068, 33394>>), Txt(<<83>>), Txt(<<77>>),
                                  Txt(<<34892, 21512, 35745>>), Txt(<<>>), Txt(<<>>)>>
        /\ RowValues(1, 3, 6) = <<Txt(<<82, 101, 100>>), Num(3), Num(5), Num(8),
                                  Txt(<<>>), Txt(<<>>)>>
        /\ RowValues(1, 4, 6) = <<Txt(<<66, 108, 117, 101>>), Num(2), Num(0), Num(2),
                                  Txt(<<>>), Txt(<<>>)>>
        /\ ScenarioTotals(5, 5, 10)

\* ------------------------------------------------------------------------
\* C15 (amended): for the records (A,Red,S,3), (A,Red,M,5), (A,Blue,S,2) the
\* summary block of A has the headers [颜色, M, S, 行合计, "", ""], the rows
\* [Blue,0,2,2,"",""] and [Red,5,3,8,"",""] in that order, and a total row
\* labelled 合计 whose formulas give 5 (M), 5 (S) and 10 (row total).
\* ------------------------------------------------------------------------
C15_ScenarioBlock ==
    (DfIsScenario /\ Finished(1)) =>
        /\ wb[1].blocks[1].total_cols = 6
        /\ RowValues(1, 2, 6) = <<Txt(<<39068, 33394>>), Txt(<<77>>), Txt(<<83>>),
                                  Txt(<<34892, 21512, 35745>>), Txt(<<>>), Txt(<<>>)>>
        /\ RowValues(1, 3, 6) = <<Txt(<<66, 108, 117, 101>>), Num(0), Num(2), Num(2),
                                  Txt(<<>>), Txt(<<>>)>>
        /\ RowValues(1, 4, 6) = <<Txt(<<82, 101, 100>>), Num(5), Num(3), Num(8),
                                  Txt(<<>>), Txt(<<>>)>>
        /\ ScenarioTotals(5, 5, 10)

\* the summary sheet of the scenario is finished, its one block rendered
C15_Witness ==
    /\ DfIsScenario
    /\ Finished(1)
    /\ Len(wb[1].blocks) = 1
    /\ wb[1].blocks[1].name = <<65>>
    /\ wb[1].blocks[1].end_row = 5

\* the input has no column that equals, case ignored, an alias of field f
HasNoColumnFor(f) ==
    \A a \in DOMAIN field_mapping[f] : \A c \in DOMAIN input.columns :
        Lower(input.columns[c]) # Lower(field_mapping[f][a])

\* nothing of generate() after the call of standardize has happened
NoLayoutWork ==
    /\ df = <<>>
    /\ wb = <<>>
    /\ sorted_types = <<>>
    /\ type_groups = <<>>
    /\ pattern_groups = <<>>
    /\ output = "none"
    /\ saved = FALSE

\* ------------------------------------------------------------------------
\* C17: when the input has no column for one of the five required fields,
\* standardize raises ValueError and generate() goes no further: no workbook,
\* no aggregation, no block, nothing saved. An input with all five columns
\* never raises.
\* ------------------------------------------------------------------------
C17_MissingFieldAborts ==
    /\ (\E f \in DOMAIN Fields : HasNoColumnFor(f)) =>
        /\ pc \in {"standardize", "failed"}
        /\ NoLayoutWork
    /\ raised = "ValueError" => pc = "failed"
    /\ (pc = "failed" /\ wb = <<>>) => raised = "ValueError"
    /\ raised = "ValueError" => \E f \in DOMAIN Fields : HasNoColumnFor(f)

\* generate() has raised on an input without a quantity column, which has a
\* column of no field
C17_Witness ==
    /\ pc = "failed"
    /\ raised = "ValueError"
    /\ HasNoColumnFor(5)
    /\ \A f \in 1..4 : ~HasNoColumnFor(f)
    /\ Len(input.columns) = 5
    /\ Len(input.rows) = 3

\* the column of the input that carries field f
InputColumn(f) ==
    LET c == CHOOSE x \in DOMAIN input.columns :
                \E a \in DOMAIN field_mapping[f] : input.columns[x] = field_mapping[f][a]
    IN  input.columns[c]

\* the cell of row r of the input in the column of field f
InputCell(r, f) == input.rows[r][InputColumn(f)]

\* the quantity written in row r of the input is a number
HasNumber(r) == InputCell(r, 5)[1] = "n"

Standardized == pc \notin {"standardize", "failed"}

\* the colors (f = 3) or sizes (f = 4) written in the input rows of one type
\* (and pattern; "" stands for any)
WrittenIn(f, type, pattern) ==
    LET tcol == InputColumn(1)
        pcol == InputColumn(2)
        fcol == InputColumn(f)
    IN  {input.rows[r][fcol] : r \in {x \in DOMAIN input.rows :
            /\ input.rows[x][tcol] = type
            /\ pattern = EmptyStr \/ input.rows[x][pcol] = pattern}}

\* the record standardize is to make of row r of the input
KeptRecord(row, cols) ==
    [type    |-> row[cols[1]],
     pattern |-> row[cols[2]],
     color   |-> row[cols[3]],
     spec    |-> row[cols[4]],
     qty     |-> IF row[cols[5]][1] = "n" THEN row[cols[5]][2][1] ELSE 0]

\* ------------------------------------------------------------------------
\* C18: standardization keeps every input row, in order and with its type,
\* pattern, color and size: the quantity is the number written, and 0 when it
\* is missing or no number. Every row, with or without a quantity, has its
\* color among the rows and its size among the columns of its type's summary
\* table and its color among the rows of its pattern's detail table.
\* ------------------------------------------------------------------------
C18_EveryRowKept ==
    Standardized =>
        LET cols == [f \in DOMAIN Fields |-> InputColumn(f)]
        IN  /\ Len(df) = Len(input.rows)
            /\ \A r \in DOMAIN input.rows : df[r] = KeptRecord(input.rows[r], cols)
            /\ sorted_types # <<>> =>
                {input.rows[r][cols[1]] : r \in DOMAIN input.rows}
                    \subseteq {t.name : t \in SummaryTables}
            /\ \A t \in SummaryTables :
                /\ {Txt(x) : x \in WrittenIn(3, t.name, EmptyStr)}
                        \subseteq {t.data[n][1] : n \in DOMAIN t.data}
                /\ {Txt(x) : x \in WrittenIn(4, t.name, EmptyStr)}
                        \subseteq {t.headers[n] : n \in DOMAIN t.headers}
            /\ \A p \in DetailTables :
                {Txt(x) : x \in WrittenIn(3, CurrentType, p.name)}
                    \subseteq {p.struct.data[n][1] : n \in DOMAIN p.struct.data}

\* the tables are built from an input with a row whose quantity is a text and
\* a row whose quantity is missing, each the only row of its type, color and
\* size
C18_Witness ==
    /\ sorted_types # <<>>
    /\ \E r1, r2 \in DOMAIN input.rows :
        /\ InputCell(r1, 5)[1] = "s"
        /\ InputCell(r2, 5) = MissingCell
        /\ df[r1].qty = 0
        /\ df[r2].qty = 0
        /\ \A r \in {r1, r2} : \A x \in DOMAIN input.rows :
            (x # r /\ InputCell(x, 1) = InputCell(r, 1)
                   /\ InputCell(x, 3) = InputCell(r, 3))
                => InputCell(x, 4) # InputCell(r, 4)

\* the left blocks of a detail sheet: one for every pair row band
LeftBlocks(s) == {b \in Blocks(s) : b.col = left_start_col}

\* the rows of the band of a left block: from its title row to the last row
\* of the taller block of the pair
BandRows(s, left) ==
    LET pair == {b \in Blocks(s) : b.row = left.row}
        last == CHOOSE e \in {b.end_row : b \in pair} :
                    \A b \in pair : b.end_row <= e
    IN  left.row..last

\* the column immediately right of a left block
SpacerColumn(left) == left.col + left.total_cols

SpacerUnbordered(s) ==
    \A left \in LeftBlocks(s) : \A row \in BandRows(s, left) :
        ~HasBorder(s, <<row, SpacerColumn(left)>>)

SpacerMinimalWidth(s) ==
    \A left \in LeftBlocks(s) :
        /\ SpacerColumn(left) \in DOMAIN wb[s].width
        /\ wb[s].width[SpacerColumn(left)] = space_col_width * 10

\* ------------------------------------------------------------------------
\* C19: on a finished detail sheet the column immediately right of the left
\* block of every pair has no border on any row of the pair's band and has
\* the spacer width 1, whatever is placed later on the sheet.
\* A wider left block placed later has that column among its own and sets its
\* width back to 7.5.
\* ------------------------------------------------------------------------
C19_SpacerColumn ==
    \A s \in 2..Len(wb) :
        Finished(s) => (SpacerUnbordered(s) /\ SpacerMinimalWidth(s))

\* the row-total column index a table of n distinct sizes and total_cols
\* columns is to have
ExpectedTotalColIdx(n, total_cols) ==
    IF n + 2 <= total_cols THEN n + 2 ELSE max_columns

\* ------------------------------------------------------------------------
\* C20: in every table the row-total column index is the number of distinct
\* sizes of the group plus 2 when that is within the column count, however
\* many padding columns there are, and max_columns = 10 otherwise; it never
\* exceeds the column count.
\* ------------------------------------------------------------------------
C20_TotalColumnIndex ==
    /\ \A t \in SummaryTables :
        /\ t.total_col_idx
            = ExpectedTotalColIdx(Cardinality(SizesOf(t.name, EmptyStr)), t.total_cols)
        /\ t.total_col_idx <= t.total_cols
    /\ \A p \in DetailTables :
        /\ p.struct.total_col_idx
            = ExpectedTotalColIdx(Cardinality(SizesOf(CurrentType, p.name)),
                                  p.struct.total_cols)
        /\ p.struct.total_col_idx <= p.struct.total_cols

\* a padded table (more columns than label, sizes and row total) and a detail
\* table of more sizes than fit, whose index is clamped
C20_Witness ==
    /\ \E t \in SummaryTables :
        /\ t.total_cols > Cardinality(SizesOf(t.name, EmptyStr)) + 2
        /\ t.total_col_idx < t.total_cols
    /\ \E p \in DetailTables :
        /\ Cardinality(SizesOf(CurrentType, p.name)) + 2 > p.struct.total_cols
        /\ p.struct.total_col_idx = max_columns

\* a block is of the band of 6 to 7 columns
InBand67(b) == 6 <= b.total_cols /\ b.total_cols <= 7

\* block a is placed before block b: on a row above, or on the same row and
\* to the left
PlacedBefore(a, b) == a.row < b.row \/ (a.row = b.row /\ a.col < b.col)

\* ------------------------------------------------------------------------
\* C21: on every detail sheet the blocks stand in non-decreasing order of
\* their column count, left before right and upper before lower; every block
\* of 6 to 7 columns starts on a row above every block of 8 to 10 columns;
\* two blocks that start on the same row are of the same band.
\* ------------------------------------------------------------------------
C21_BandsAndWidthOrder ==
    \A s \in 2..Len(wb) : \A a, b \in Blocks(s) :
        /\ PlacedBefore(a, b) => a.total_cols <= b.total_cols
        /\ (InBand67(a) /\ ~InBand67(b)) => a.row < b.row
        /\ a.row = b.row => (InBand67(a) <=> InBand67(b))

\* a finished detail sheet with a single table of 7 columns, alone on its
\* row, above a pair of tables of different widths of the other band
C21_Witness ==
    \E s \in 2..Len(wb) :
        /\ Finished(s)
        /\ \E a, b, c \in Blocks(s) :
            /\ a.total_cols = 7
            /\ \A x \in Blocks(s) : x.row = a.row => x = a
            /\ a.row < b.row
            /\ b.row = c.row
            /\ b.col = left_start_col
            /\ c.col = right_start_col
            /\ 8 <= b.total_cols
            /\ b.total_cols < c.total_cols

\* the cells of a partial function on cells are the same in before and after
\* wherever they lie outside rect: none added, none removed, none changed
SameOutside(before, after, rect) ==
    /\ DOMAIN after \ rect = DOMAIN before \ rect
    /\ \A cell \in DOMAIN before \ rect : after[cell] = before[cell]

\* rendering table p on sheet ws at row r and column c writes values and
\* borders inside rows r..r+n+2 and columns c..c+w-1 only, and the block it
\* records ends at row r+n+2, the row it returns
RendersWithinFrame(ws, p, r, c) ==
    LET n    == Len(p.struct.data)
        w    == p.struct.total_cols
        rect == Rect(r, r + n + 2, c, c + w - 1)
        out  == _generate_single_pattern_block(ws, p, r, c)
    IN  /\ SameOutside(ws.value, out.value, rect)
        /\ SameOutside(ws.border, out.border, rect)
        /\ <<r + n + 2, c>> \in DOMAIN out.value
        /\ PatternBlockEndRow(p.struct, r) = r + n + 2
        /\ out.blocks[Len(out.blocks)].end_row = r + n + 2

\* the table at position j of the current band, as the loop passes it on
PendingPattern(j) ==
    [name   |-> pattern_groups[gi][j].name,
     struct |-> pattern_groups[gi][j].struct,
     title  |-> CurrentType \o Dash \o pattern_groups[gi][j].name
                \o Dash \o _get_formatted_date]

\* ------------------------------------------------------------------------
\* C22: rendering one block at row r and column c, for a table of n data rows
\* and w columns, writes cell values and borders only inside rows r..r+n+2
\* and columns c..c+w-1, leaves every cell outside as it was, and returns
\* r+n+2, the row of the total row. Checked for the two calls of every pair,
\* on the sheet as it is when the call is made, and on every block rendered.
\* ------------------------------------------------------------------------
C22_RenderingStaysInFrame ==
    /\ \A s \in 2..Len(wb) : \A b \in Blocks(s) : b.end_row = b.row + b.data_rows + 2
    /\ pc = "pairs" =>
        LET ws  == wb[Len(wb)]
            ws1 == _generate_single_pattern_block(ws, PendingPattern(i), current_row,
                                                  left_start_col)
        IN  /\ RendersWithinFrame(ws, PendingPattern(i), current_row, left_start_col)
            /\ i < Len(pattern_groups[gi]) =>
                RendersWithinFrame(ws1, PendingPattern(i + 1), current_row,
                                   right_start_col)

\* a pair is about to be rendered on a sheet that holds blocks already; one
\* of its two tables has more sizes than columns for them
C22_Witness ==
    /\ pc = "pairs"
    /\ wb[Len(wb)].blocks # <<>>
    /\ i < Len(pattern_groups[gi])
    /\ \E j \in {i, i + 1} :
        pattern_groups[gi][j].struct.spec_count + 2
            > pattern_groups[gi][j].struct.total_cols

\* ------------------------------------------------------------------------
\* C23: generate() prints and returns the output path only after wb.save has
\* written the file. When standardize or wb.save raises, generate() ends with
\* that exception: no step follows it (nothing is retried) and no path is
\* printed or returned.
\* ------------------------------------------------------------------------
C23_PathOnlyAfterSave ==
    /\ output # "none" => (saved /\ raised = "none" /\ pc = "done")
    /\ pc = "done" => output = OutputPath
    /\ raised # "none" => (pc = "failed" /\ output = "none")
    /\ pc = "failed" => (raised # "none" /\ ~ENABLED Next)
    /\ (pc = "failed" /\ wb # <<>>) => (raised = "OSError" /\ ~saved)

\* the path was returned after the save of a workbook with detail sheets
C23_Witness ==
    /\ pc = "done"
    /\ saved
    /\ output = OutputPath
    /\ Len(wb) > 1

\* wb.save raised after the whole layout was done
C23_WitnessSaveRaised ==
    /\ pc = "failed"
    /\ raised = "OSError"
    /\ Len(wb) > 1
    /\ output = "none"

\* ------------------------------------------------------------------------
\* split_outside_parentheses (分割处理1.0.py): a text is cut at its first
\* separator outside parentheses
\* ------------------------------------------------------------------------
\* the longest text of a call
MaxTextLen == 5

\* "(" and ")"
OpenParen == 40

CloseParen == 41

\* the characters of the texts: "a", ",", " ", "(", ")"
TextChars == {97, 44, 32, OpenParen, CloseParen}

RECURSIVE TextsOfLen(_)
TextsOfLen(n) ==
    IF n = 0 THEN {<<>>}
    ELSE {Append(t, c) : t \in TextsOfLen(n - 1), c \in TextChars}

Texts == UNION {TextsOfLen(n) : n \in 0..MaxTextLen}

\* the separator lists of a call: the default [",", " "], [","] alone, a list
\* with a separator of two characters, [", ", "a"], and two that name a
\* parenthesis, ["(", ","] and [")", ","]
SeparatorLists ==
    {<<<<44>>, <<32>>>>, <<<<44>>>>, <<<<44, 32>>, <<97>>>>,
     <<<<OpenParen>>, <<44>>>>, <<<<CloseParen>>, <<44>>>>}

\* ''.join(separators): the characters str.rstrip and str.lstrip remove
RECURSIVE Joined(_)
Joined(separators) ==
    IF separators = <<>> THEN <<>> ELSE Head(separators) \o Joined(Tail(separators))

StripChars(separators) ==
    LET j == Joined(separators) IN {j[n] : n \in DOMAIN j}

\* char in separators: the character is an element of the list
IsSeparator(char, separators) ==
    \E n \in DOMAIN separators : separators[n] = <<char>>

\* str.rstrip(chars) and str.lstrip(chars)
RECURSIVE RStrip(_, _)
RStrip(t, chars) ==
    IF t # <<>> /\ t[Len(t)] \in chars THEN RStrip(SubSeq(t, 1, Len(t) - 1), chars)
    ELSE t

RECURSIVE LStrip(_, _)
LStrip(t, chars) ==
    IF t # <<>> /\ Head(t) \in chars THEN LStrip(Tail(t), chars) ELSE t

\* OpenBracket that does not count the parenthesis
OpenBracket_NotCounted(bracket_depth) == bracket_depth

\* bracket_depth after "("
OpenBracket(bracket_depth) == bracket_depth + 1

\* bracket_depth after ")": never below 0
CloseBracket(bracket_depth) == Max(0, bracket_depth - 1)

\* the loop over the characters from position idx on (positions counted from
\* 1): the position of the first separator met at depth 0, 0 when there is
\* none (first_valid_sep_pos stays -1)
RECURSIVE ScanForSeparator(_, _, _, _)
ScanForSeparator(text, separators, idx, bracket_depth) ==
    IF idx > Len(text) THEN 0
    ELSE IF text[idx] = OpenParen
    THEN ScanForSeparator(text, separators, idx + 1, OpenBracket(bracket_depth))
    ELSE IF text[idx] = CloseParen
    THEN ScanForSeparator(text, separators, idx + 1, CloseBracket(bracket_depth))
    ELSE IF bracket_depth = 0 /\ IsSeparator(text[idx], separators)
    THEN idx
    ELSE ScanForSeparator(text, separators, idx + 1, bracket_depth)

split_outside_parentheses(text, separators) ==
    IF text = <<>> THEN <<EmptyStr, EmptyStr>>
    ELSE LET first_valid_sep_pos == ScanForSeparator(text, separators, 1, 0)
             front_part == RStrip(SubSeq(text, 1, first_valid_sep_pos - 1),
                                  StripChars(separators))
             back_part  == LStrip(SubSeq(text, first_valid_sep_pos, Len(text)),
                                  StripChars(separators))
         IN  IF first_valid_sep_pos = 0 THEN <<text, EmptyStr>>
             ELSE IF front_part = <<>> \/ back_part = <<>> THEN <<text, EmptyStr>>
             ELSE <<front_part, back_part>>

\* the generator takes no part in a call of a cleaning function
GeneratorIdle ==
    /\ input = <<>>
    /\ df = <<>>
    /\ wb = <<>>
    /\ sorted_types = <<>>
    /\ type_groups = <<>>
    /\ pattern_groups = <<>>
    /\ k = 0
    /\ gi = 0
    /\ i = 0
    /\ current_row = 0
    /\ output = "none"
    /\ raised = "none"
    /\ saved = FALSE

generator_vars == <<input, df, wb, sorted_types, type_groups, pattern_groups,
                    k, gi, i, current_row, output, saved>>

SplitInit ==
    /\ pc = "call"
    /\ args \in [text : Texts, separators : SeparatorLists]
    /\ returned = <<>>
    /\ GeneratorIdle

SplitCall ==
    /\ pc = "call"
    /\ returned' = split_outside_parentheses(args.text, args.separators)
    /\ pc' = "returned"
    /\ UNCHANGED <<args, raised, generator_vars>>

SplitSpec == SplitInit /\ [][SplitCall]_vars

\* the depth of parentheses in front of position n of a text: the "(" less
\* the ")" before n, a ")" at depth 0 not counted
RECURSIVE DepthBefore(_, _)
DepthBefore(text, n) ==
    IF n <= 1 THEN 0
    ELSE LET d == DepthBefore(text, n - 1)
         IN  IF text[n - 1] = OpenParen THEN d + 1
             ELSE IF text[n - 1] = CloseParen /\ d > 0 THEN d - 1
             ELSE d

\* the positions of a text that hold a character of the separator list
\* outside every open parenthesis; a parenthesis named in the list counts
\* like any other character, at the depth of the text in front of it
ListedAtDepth0(text, separators) ==
    {n \in DOMAIN text :
        /\ \E m \in DOMAIN separators : separators[m] = <<text[n]>>
        /\ DepthBefore(text, n) = 0}

\* those of them that are no parenthesis
SeparatorsAtDepth0(text, separators) ==
    {n \in ListedAtDepth0(text, separators) : text[n] \notin {OpenParen, CloseParen}}

\* front and back are the two sides of a cut of text at position pos, less
\* the characters removed at the cut
CutAt(text, pos, front, back) ==
    /\ Len(front) <= pos - 1
    /\ front = SubSeq(text, 1, Len(front))
    /\ Len(back) <= Len(text) - pos + 1
    /\ back = SubSeq(text, Len(text) - Len(back) + 1, Len(text))

\* the result is the text unchanged, or two non-empty parts cut at the first
\* of the positions valid
UnchangedOrCutAtFirst(text, valid, result) ==
    \/ result = <<text, EmptyStr>>
    \/ /\ result[1] # EmptyStr
       /\ result[2] # EmptyStr
       /\ valid # {}
       /\ LET pos == CHOOSE n \in valid : \A m \in valid : n <= m
          IN  CutAt(text, pos, result[1], result[2])

\* ------------------------------------------------------------------------
\* C24 as stated: for any text and separator list, split_outside_parentheses
\* returns the text unchanged, or two non-empty parts cut at the first
\* separator character at parenthesis depth 0.
\* A parenthesis named in the separator list is never the place of the cut:
\* with [")", ","] the text "a)a,a" is cut at the comma.
\* ------------------------------------------------------------------------
C24_Stated_CutAtFirstListed ==
    pc = "returned" =>
        UnchangedOrCutAtFirst(args.text, ListedAtDepth0(args.text, args.separators),
                              returned)

\* ------------------------------------------------------------------------
\* C24 (amended): split_outside_parentheses returns the text unchanged with
\* an empty back part, or two non-empty parts cut at the first separator
\* character, other than a parenthesis, that lies at parenthesis depth 0; a
\* separator inside an open parenthesis is never the place of the cut.
\* ------------------------------------------------------------------------
C24_SplitAtFirstOuterSeparator ==
    pc = "returned" =>
        UnchangedOrCutAtFirst(args.text, SeparatorsAtDepth0(args.text, args.separators),
                              returned)

\* a text with a separator inside a parenthesis and one after it was cut at
\* the second: "(,),"  followed by a character
C24_Witness ==
    /\ pc = "returned"
    /\ returned[2] # EmptyStr
    /\ \E n \in DOMAIN args.text :
        /\ IsSeparator(args.text[n], args.separators)
        /\ DepthBefore(args.text, n) > 0
        /\ Len(returned[1]) >= n

\* ------------------------------------------------------------------------
\* extract_quantity (数量提取1.0.py): the quantity of every row is taken from
\* the quantity column, and from the spec text where that column has none
\* ------------------------------------------------------------------------
\* the longest spec text of a call
MaxSpecTextLen == 4

\* BASE_SEPARATORS = [':', '*'] and EXTENDED_SEPARATORS = [] as the module
\* is loaded
BASE_SEPARATORS == <<<<58>>, <<42>>>>

EXTENDED_SEPARATORS == <<>>

\* no number: None, NaN
NaN == <<>>

\* the number v, as a value that may be NaN
Float(v) == <<v>>

\* str.strip(): spaces are the white space of the texts here
Strip(t) == LStrip(RStrip(t, {32}), {32})

\* str.rfind(sub): the last position at which sub stands in text, positions
\* counted from 1; 0 when it does not occur (rfind returns -1)
RFind(text, sub) ==
    LET at == {n \in 1..(Len(text) - Len(sub) + 1) :
                  SubSeq(text, n, n + Len(sub) - 1) = sub}
    IN  IF at = {} THEN 0 ELSE CHOOSE n \in at : \A m \in at : m <= n

\* the forms of one separator in the order they are tried: bare, then with
\* one, two and three spaces in front, behind, and on both sides
SeparatorForms(sep) ==
    LET sp(n) == [x \in 1..n |-> 32]
        forms(n) == <<sp(n) \o sep, sep \o sp(n), sp(n) \o sep \o sp(n)>>
    IN  <<sep>> \o forms(1) \o forms(2) \o forms(3)

RECURSIVE AllForms(_)
AllForms(seps) ==
    IF seps = <<>> THEN <<>> ELSE SeparatorForms(Head(seps)) \o AllForms(Tail(seps))

\* the loops over the separators and their forms: found_index and found_sep
\* after the forms from position n on, a form replacing the one found when it
\* stands strictly further right
RECURSIVE FindLast(_, _, _, _)
FindLast(spec_text, forms, n, found) ==
    IF n > Len(forms) THEN found
    ELSE LET index == RFind(spec_text, forms[n])
         IN  FindLast(spec_text, forms, n + 1,
                      IF index > found.index
                      THEN [index |-> index, sep |-> forms[n]]
                      ELSE found)

\* re.search(r'^\d+', num_part): the digits at the head of a text
RECURSIVE LeadingDigits(_)
LeadingDigits(t) ==
    IF t # <<>> /\ Head(t) \in 48..57 THEN <<Head(t)>> \o LeadingDigits(Tail(t))
    ELSE <<>>

\* extract_qty_from_spec on the cell of the spec column: the quantity, or
\* NaN, and the text cleaned of it
extract_qty_from_spec(cell) ==
    IF cell[1] # "s" THEN <<NaN, cell>>
    ELSE LET spec_text == cell[2]
             found     == FindLast(spec_text,
                                   AllForms(BASE_SEPARATORS \o EXTENDED_SEPARATORS),
                                   1, [index |-> 0, sep |-> <<>>])
             num_start == found.index + Len(found.sep)
             num_part  == Strip(SubSeq(spec_text, num_start, Len(spec_text)))
             digits    == LeadingDigits(num_part)
         IN  IF found.index = 0 THEN <<NaN, cell>>
             ELSE IF digits # <<>>
             THEN <<Float(NumVal(digits)),
                    Txt(Strip(SubSeq(spec_text, 1, found.index - 1)))>>
             ELSE <<NaN, cell>>

\* pd.to_numeric(errors='coerce') on one cell
ToNumeric(cell) ==
    IF cell[1] = "n" THEN Float(cell[2][1])
    ELSE IF cell[1] = "s" /\ IsNumeric(cell[2]) THEN Float(NumVal(cell[2]))
    ELSE NaN

\* "数量", "件数", "宝贝数量", "商品数量", "宝贝规格"
primary_col == <<25968, 37327>>

secondary_columns ==
    <<<<20214, 25968>>, <<23453, 36125, 25968, 37327>>, <<21830, 21697, 25968, 37327>>>>

spec_col == <<23453, 36125, 35268, 26684>>

\* the quantity column of a table, <<>> when extract_quantity raises for
\* want of one or for having several
QuantityColumn(columns) ==
    LET has(name)    == \E c \in DOMAIN columns : columns[c] = name
        matched_cols == SelectSeq(secondary_columns, has)
    IN  IF has(primary_col) THEN primary_col
        ELSE IF Len(matched_cols) = 1 THEN matched_cols[1]
        ELSE <<>>

\* FinalQuantity with the spec text first
FinalQuantity_SpecFirst(independent, from_spec) ==
    IF from_spec # NaN THEN from_spec[1]
    ELSE IF independent # NaN THEN independent[1]
    ELSE 0

\* the final quantity of a row: the quantity of the column, that of the spec
\* text where the column has none, NaN filled with 0
FinalQuantity(independent, from_spec) ==
    IF independent # NaN THEN independent[1]
    ELSE IF from_spec # NaN THEN from_spec[1]
    ELSE 0

\* ConfigCenter.ALLOW_CONFLICT
ALLOW_CONFLICT == TRUE

\* the columns extract_quantity adds to one row; without a spec column
\* nothing is extracted and the row gets no conflict flag
ExtractedRow(row, quantity_col, has_spec) ==
    LET independent == ToNumeric(row[quantity_col])
        from_spec   == IF has_spec THEN extract_qty_from_spec(row[spec_col])[1] ELSE NaN
    IN  [independent |-> independent,
         from_spec   |-> from_spec,
         final       |-> FinalQuantity(independent, from_spec),
         flagged     |-> ALLOW_CONFLICT /\ has_spec,
         conflict    |-> /\ ALLOW_CONFLICT /\ has_spec
                         /\ from_spec # NaN /\ independent # NaN
                         /\ from_spec # independent]

\* the characters of the spec texts: "a", ":", "*", " ", "2", "3"
SpecChars == {97, 58, 42, 32, 50, 51}

RECURSIVE SpecTextsOfLen(_)
SpecTextsOfLen(n) ==
    IF n = 0 THEN {<<>>}
    ELSE {Append(t, c) : t \in SpecTextsOfLen(n - 1), c \in SpecChars}

\* the cells of the spec column: a text, or nothing
SpecCells == {Txt(t) : t \in UNION {SpecTextsOfLen(n) : n \in 0..MaxSpecTextLen}}
             \cup {MissingCell}

\* the cells of the quantity column: 0, 2, 3, the texts "3" and "x", nothing
QuantityCells == {Num(0), Num(2), Num(3), Txt(<<51>>), Txt(<<120>>), MissingCell}

\* the column lists of the tables: the quantity column under its primary
\* name or a secondary one, both at once, none, two secondary ones, and no
\* spec column
ColumnLists ==
    {<<primary_col, spec_col>>,
     <<secondary_columns[1], spec_col>>,
     <<secondary_columns[1], primary_col, spec_col>>,
     <<primary_col>>,
     <<spec_col>>,
     <<secondary_columns[1], secondary_columns[3], spec_col>>}

\* the tables of one row: the row has a quantity cell in every quantity
\* column and a spec cell in the spec column
QuantityTables ==
    {[columns |-> cols,
      rows    |-> <<[n \in {cols[c] : c \in DOMAIN cols} |->
                        IF n = spec_col THEN sc ELSE qc]>>] :
        cols \in ColumnLists, qc \in QuantityCells, sc \in SpecCells}

ExtractInit ==
    /\ pc = "call"
    /\ args \in QuantityTables
    /\ returned = <<>>
    /\ raised = "none"
    /\ GeneratorIdle

ExtractCall ==
    /\ pc = "call"
    /\ LET quantity_col == QuantityColumn(args.columns)
           has_spec     == \E c \in DOMAIN args.columns : args.columns[c] = spec_col
       IN  IF quantity_col = <<>>
           THEN /\ raised' = "QuantityExtractionError"
                /\ pc' = "failed"
                /\ UNCHANGED returned
           ELSE /\ returned' = [r \in DOMAIN args.rows |->
                                  ExtractedRow(args.rows[r], quantity_col, has_spec)]
                /\ pc' = "returned"
                /\ UNCHANGED raised
    /\ UNCHANGED <<args, generator_vars>>

ExtractSpec == ExtractInit /\ [][ExtractCall]_vars

\* the cell of the quantity column holds a number, as a number or as the
\* text of one
NumericCell(cell) == cell[1] = "n" \/ (cell[1] = "s" /\ IsNumeric(cell[2]))

CellValue(cell) == IF cell[1] = "n" THEN cell[2][1] ELSE NumVal(cell[2])

\* the cell of row r in the quantity column of the table passed in
QuantityCellOf(r) == args.rows[r][QuantityColumn(args.columns)]

\* C25: in every row extract_quantity returns, the final quantity is the
\* value of the quantity column when that value is numeric, the quantity
\* extracted from the spec text when the column's value is missing or not
\* numeric and the spec text yields one, and 0 when there is neither; and the
\* row is flagged as a conflict exactly when both quantities exist and differ
C25_IndependentQuantityFirst ==
    (pc = "returned" /\ args \in QuantityTables) =>
        \A r \in DOMAIN returned :
            LET row  == returned[r]
                cell == QuantityCellOf(r)
            IN  /\ NumericCell(cell) => row.final = CellValue(cell)
                /\ (~NumericCell(cell) /\ row.from_spec # NaN) =>
                       row.final = row.from_spec[1]
                /\ (~NumericCell(cell) /\ row.from_spec = NaN) => row.final = 0
                /\ row.conflict <=>
                       /\ NumericCell(cell)
                       /\ row.from_spec # NaN
                       /\ row.from_spec[1] # CellValue(cell)

\* a returned row whose quantity column holds 3 and whose spec text ends in
\* ":2": the final quantity is 3 and the row is flagged
C25_Witness ==
    /\ pc = "returned"
    /\ args \in QuantityTables
    /\ \E r \in DOMAIN returned :
        /\ NumericCell(QuantityCellOf(r))
        /\ CellValue(QuantityCellOf(r)) = 3
        /\ spec_col \in DOMAIN args.rows[r]
        /\ args.rows[r][spec_col] = Txt(<<97, 32, 58, 50>>)
        /\ returned[r].from_spec = Float(2)
        /\ returned[r].final = 3
        /\ returned[r].conflict

\* a returned row whose quantity column holds the text "x" and whose spec
\* text ends in "*3": the final quantity is the 3 of the spec text
C25_WitnessFromSpec ==
    /\ pc = "returned"
    /\ args \in QuantityTables
    /\ \E r \in DOMAIN returned :
        /\ QuantityCellOf(r) = Txt(<<120>>)
        /\ spec_col \in DOMAIN args.rows[r]
        /\ args.rows[r][spec_col] = Txt(<<97, 42, 32, 51>>)
        /\ returned[r].final = 3
        /\ ~returned[r].conflict

====
